---- MODULE Spec2Model ----
(***************************************************************************)
(* A model of transformers/modeling_albert.py: the forward pass of         *)
(* AlbertModel (input validation, mask preparation, the shared-parameter   *)
(* encoder loop of AlbertTransformer / AlbertLayerGroup), the heads        *)
(* AlbertForQuestionAnswering, AlbertForSequenceClassification and         *)
(* AlbertForMaskedLM, AlbertModel._prune_heads and the checkpoint          *)
(* conversion load_tf_weights_in_albert.                                   *)
(*                                                                         *)
(* Tensors are modelled by what the code observes of them:                 *)
(*   - an optional argument is <<>> (None) or <<x>> (a value x);           *)
(*   - input_ids / inputs_embeds are their shapes;                         *)
(*   - a mask is a matrix [1..batch -> [1..seq -> {0,1}]];                 *)
(*   - a hidden state is the sequence of AlbertLayer applications that     *)
(*     produced it from the mapped embedding output (<<>> = the mapped     *)
(*     embedding output itself);                                           *)
(*   - a loss is a fraction [num, den] (den = 0 is torch's nan, the mean   *)
(*     over no term).                                                      *)
(***************************************************************************)
EXTENDS Integers, Sequences, FiniteSets, TLC

\* ---------------------------------------------------------------- bounds
MaxLayers == 3
MaxGroups == 2
MaxInner == 2
NumHeads == 1
MaxBatch == 2
MaxSeqLen == 2
MaxLabels == 3
MaxNLL == 2
VocabSize == 2

VARIABLES
    config,                  \* the AlbertConfig the model was constructed with
    model_class,             \* the class whose forward is called
    args,                    \* the arguments the forward was called with
    pc,                      \* position of the call
    error,                   \* the exception that propagated, "" for none
    input_shape,             \* AlbertModel.forward locals ...
    attention_mask,
    token_type_ids,
    extended_attention_mask,
    head_mask,
    embedding_output,
    hidden_states,           \* AlbertTransformer.forward locals ...
    all_hidden_states,
    all_attentions,
    i,
    outputs,                 \* the tuple built / returned
    start_positions,         \* the callers' label tensors (clamp_ is in place)
    end_positions,
    start_loss,              \* the heads' locals
    end_loss,
    loss_fct,
    masked_lm_loss,
    pruned_heads,            \* AlbertAttention.pruned_heads of every AlbertLayer
    num_attention_heads,     \* AlbertAttention.num_attention_heads of every AlbertLayer
    heads_to_prune,          \* heads_to_prune.items(), in the dict's order
    tf_vars,                 \* the (name, shape) list of the TF checkpoint
    tf_index,                \* the number of checkpoint variables visited
    parameters,              \* the model's parameters: shape and origin of the data
    name,                    \* load_tf_weights_in_albert: the remapped name of the
                             \* variable visited last (before name.split)
    error_args               \* the args of the exception that propagated

\* the state of AlbertModel._prune_heads and of load_tf_weights_in_albert
model_vars == <<pruned_heads, num_attention_heads, heads_to_prune, tf_vars,
                tf_index, parameters, name, error_args>>

vars == <<config, model_class, args, pc, error, input_shape, attention_mask,
          token_type_ids, extended_attention_mask, head_mask, embedding_output,
          hidden_states, all_hidden_states, all_attentions, i, outputs,
          start_positions, end_positions, start_loss, end_loss, loss_fct,
          masked_lm_loss, model_vars>>

\* ------------------------------------------------------- python helpers
None == <<>>
Some(x) == <<x>>
Val(o) == o[1]

Min(a, b) == IF a <= b THEN a ELSE b
Max(a, b) == IF a >= b THEN a ELSE b

\* s[a:b] for 0 <= a <= b
Slice(s, a, b) ==
    IF a + 1 > Min(b, Len(s)) THEN <<>> ELSE SubSeq(s, a + 1, Min(b, Len(s)))

\* an element of a python tuple: (name, value)
NV(n, v) == [name |-> n, value |-> v]

RECURSIVE SumOver(_, _)
SumOver(f, S) ==
    IF S = {} THEN 0
    ELSE LET x == CHOOSE y \in S : TRUE IN f[x] + SumOver(f, S \ {x})

Matrix(B, S, Vals) == [1..B -> [1..S -> Vals]]
Full(shape, v) == [b \in 1..shape[1] |-> [s \in 1..shape[2] |-> v]]

\* ------------------------------------------------------------- the config
Configs ==
    [num_hidden_layers : 1..MaxLayers,
     num_hidden_groups : 1..MaxGroups,
     inner_group_num : 1..MaxInner,
     output_hidden_states : BOOLEAN,
     output_attentions : BOOLEAN,
     num_attention_heads : {NumHeads},
     embedding_size : {2},
     num_labels : 1..MaxLabels]

\* the AlbertLayer modules AlbertTransformer.__init__ constructs: one
\* AlbertLayerGroup per hidden group, inner_group_num AlbertLayer in each
AlbertLayerModules(c) ==
    {<<g, k>> : g \in 0..(c.num_hidden_groups - 1), k \in 0..(c.inner_group_num - 1)}

\* ---------------------------------------------------------- the arguments
HeadMaskRows(c) == [1..c.num_attention_heads -> {0, 1}]

HeadMasks(c) ==
    {None}
    \cup {Some([dim |-> 1, data |-> <<r>>]) : r \in HeadMaskRows(c)}
    \cup {Some([dim |-> 2, data |-> d]) : d \in [1..c.num_hidden_layers -> HeadMaskRows(c)]}

Opt(S) == {None} \cup {Some(x) : x \in S}

NoLabels == [start_positions |-> None, end_positions |-> None, labels |-> None,
             masked_lm_labels |-> None]

\* the arguments of a forward call (position_ids only passes through to the
\* embeddings and is left out)
CallArgs(ids, embeds, am, tt, hm, lab) ==
    [input_ids |-> ids, inputs_embeds |-> embeds, attention_mask |-> am,
     token_type_ids |-> tt, head_mask |-> hm,
     start_positions |-> lab.start_positions, end_positions |-> lab.end_positions,
     labels |-> lab.labels, masked_lm_labels |-> lab.masked_lm_labels]

\* ------------------------------------------------------------------ Init
\* AlbertAttention.__init__ in every AlbertLayer: no head pruned
Unpruned ==
    /\ pruned_heads = [m \in AlbertLayerModules(config) |-> {}]
    /\ num_attention_heads =
          [m \in AlbertLayerModules(config) |-> config.num_attention_heads]

\* the model as constructed, no pruning asked for, no checkpoint being loaded
Constructed ==
    /\ Unpruned
    /\ heads_to_prune = <<>>
    /\ tf_vars = <<>>
    /\ tf_index = 0
    /\ parameters = <<>>
    /\ name = ""
    /\ error_args = <<>>

\* no forward call has run
NotCalled ==
    /\ error = ""
    /\ input_shape = <<>>
    /\ attention_mask = None
    /\ token_type_ids = None
    /\ extended_attention_mask = None
    /\ head_mask = <<>>
    /\ embedding_output = None
    /\ hidden_states = None
    /\ all_hidden_states = <<>>
    /\ all_attentions = <<>>
    /\ i = 0
    /\ outputs = <<>>
    /\ start_positions = args.start_positions
    /\ end_positions = args.end_positions
    /\ start_loss = None
    /\ end_loss = None
    /\ loss_fct = ""
    /\ masked_lm_loss = None

ForwardLocals ==
    /\ pc = "forward"
    /\ NotCalled

Locals == ForwardLocals /\ Constructed

\* AlbertModel with any encoder topology and any head_mask, called with or
\* without input_ids and inputs_embeds, on one sequence of one token
Init ==
    /\ model_class = "AlbertModel"
    /\ config \in {c \in Configs : c.num_labels = 2}
    /\ args \in {CallArgs(ids, embeds, None, None, hm, NoLabels) :
                    ids \in Opt({<<1, 1>>}),
                    embeds \in Opt({<<1, 1, config.embedding_size>>}),
                    hm \in HeadMasks(config)}
    /\ Locals

\* ------------------------------------------------- AlbertModel.forward
ForwardInputErrorNoBothCheck(a) ==
    IF a.input_ids = None /\ a.inputs_embeds = None
    THEN "ValueError" ELSE ""

\* lines 507-514: the ValueError raised on the arguments, "" for none
ForwardInputError(a) ==
    IF a.input_ids # None /\ a.inputs_embeds # None THEN "ValueError"
    ELSE IF a.input_ids # None THEN ""
    ELSE IF a.inputs_embeds # None THEN ""
    ELSE "ValueError"

\* lines 509-512
InputShape(a) ==
    IF a.input_ids # None THEN Val(a.input_ids)
    ELSE SubSeq(Val(a.inputs_embeds), 1, Len(Val(a.inputs_embeds)) - 1)

\* lines 518-519
DefaultAttentionMask(a, shape) ==
    IF a.attention_mask = None THEN Full(shape, 1) ELSE Val(a.attention_mask)

\* lines 520-521
DefaultTokenTypeIds(a, shape) ==
    IF a.token_type_ids = None THEN Full(shape, 0) ELSE Val(a.token_type_ids)

ExtendedAttentionMaskInverted(m) ==
    [b \in DOMAIN m |-> [s \in DOMAIN m[b] |-> m[b][s] * (-10000)]]

\* lines 523-525: (1.0 - mask) * -10000.0
ExtendedAttentionMask(m) ==
    [b \in DOMAIN m |-> [s \in DOMAIN m[b] |-> (1 - m[b][s]) * (-10000)]]

\* lines 526-534: one entry per hidden layer, the mask row or None
PrepareHeadMask(a, c) ==
    IF a.head_mask # None
    THEN IF Val(a.head_mask).dim = 1
         THEN [l \in 1..c.num_hidden_layers |-> Some(Val(a.head_mask).data[1])]
         ELSE [l \in DOMAIN Val(a.head_mask).data |-> Some(Val(a.head_mask).data[l])]
    ELSE [l \in 1..c.num_hidden_layers |-> None]

\* lines 504-540 and 314-320: validation, masks, embeddings, entry of the encoder
AlbertModel_forward ==
    /\ pc = "forward"
    /\ IF ForwardInputError(args) # ""
       THEN /\ pc' = "raised"
            /\ error' = ForwardInputError(args)
            /\ UNCHANGED <<input_shape, attention_mask, token_type_ids,
                           extended_attention_mask, head_mask, embedding_output,
                           hidden_states, all_hidden_states, all_attentions>>
       ELSE /\ pc' = "encoder"
            /\ error' = ""
            /\ input_shape' = InputShape(args)
            /\ attention_mask' = Some(DefaultAttentionMask(args, InputShape(args)))
            /\ token_type_ids' = Some(DefaultTokenTypeIds(args, InputShape(args)))
            /\ extended_attention_mask' =
                   Some(ExtendedAttentionMask(DefaultAttentionMask(args, InputShape(args))))
            /\ head_mask' = PrepareHeadMask(args, config)
            /\ embedding_output' =
                   Some([input_ids |-> args.input_ids,
                         inputs_embeds |-> args.inputs_embeds,
                         token_type_ids |-> DefaultTokenTypeIds(args, InputShape(args))])
            /\ hidden_states' = Some(<<>>)
            /\ all_attentions' = <<>>
            /\ all_hidden_states' =
                   IF config.output_hidden_states THEN << <<>> >> ELSE <<>>
    /\ i' = 0
    /\ UNCHANGED <<config, model_class, args, outputs, start_positions,
                   end_positions, start_loss, end_loss, loss_fct,
                   masked_lm_loss, model_vars>>

\* ------------------------------------------- AlbertTransformer.forward
\* line 324
LayersPerGroup(c) == c.num_hidden_layers \div c.num_hidden_groups

GroupIdxInterleaved(c, it) == it % c.num_hidden_groups

\* line 327: int(i / (num_hidden_layers / num_hidden_groups))
GroupIdx(c, it) == (it * c.num_hidden_groups) \div c.num_hidden_layers

\* line 332: head_mask[group_idx*layers_per_group:(group_idx+1)*layers_per_group]
HeadMaskSlice(c, hm, it) ==
    Slice(hm, GroupIdx(c, it) * LayersPerGroup(c),
              (GroupIdx(c, it) + 1) * LayersPerGroup(c))

\* lines 264-271 (and 209-250): one application of the AlbertLayer <<g, k>>
AlbertLayer_forward(it, g, k, am, hm) ==
    [iteration |-> it, group |-> g, layer |-> k, attention_mask |-> am,
     head_mask |-> hm]

\* line 250: the attention_probs of that application
AttentionProbs(app, hs) ==
    [iteration |-> app.iteration, group |-> app.group, layer |-> app.layer,
     head_mask |-> app.head_mask, depth |-> Len(hs)]

\* lines 282-301: raised is the IndexError of head_mask[layer_index]
AlbertLayerGroup_forward(c, it, g, hs, am, hm) ==
    LET n == c.inner_group_num
        apps == [k \in 1..n |-> AlbertLayer_forward(it, g, k - 1, am,
                                   IF k <= Len(hm) THEN hm[k] ELSE None)]
        after(k) == hs \o SubSeq(apps, 1, k)
        layer_hidden_states == [k \in 1..n |-> after(k)]
        layer_attentions == [k \in 1..n |-> AttentionProbs(apps[k], after(k - 1))]
    IN  [raised |-> n > Len(hm),
         outputs |-> << NV("hidden_states", after(n)) >>
                     \o (IF c.output_hidden_states
                         THEN << NV("layer_hidden_states", layer_hidden_states) >>
                         ELSE <<>>)
                     \o (IF c.output_attentions
                         THEN << NV("layer_attentions", layer_attentions) >>
                         ELSE <<>>)]

CollectLayerHiddenStates(all, layer_group_output) ==
    all \o layer_group_output[2].value

\* lines 338-339: all_hidden_states + (hidden_states,)
CollectHiddenStates(all, layer_group_output) ==
    Append(all, layer_group_output[1].value)

\* lines 335-336: all_attentions + layer_group_output[-1]
CollectAttentions(all, layer_group_output) ==
    all \o layer_group_output[Len(layer_group_output)].value

\* lines 322-339: one iteration of the loop over the hidden layers
AlbertTransformer_forward_iter ==
    /\ pc = "encoder"
    /\ i < config.num_hidden_layers
    /\ LET out == AlbertLayerGroup_forward(config, i, GroupIdx(config, i),
                      Val(hidden_states), Val(extended_attention_mask),
                      HeadMaskSlice(config, head_mask, i))
       IN  IF out.raised
           THEN /\ pc' = "raised"
                /\ error' = "IndexError"
                /\ UNCHANGED <<hidden_states, all_hidden_states, all_attentions, i>>
           ELSE /\ pc' = "encoder"
                /\ error' = ""
                /\ hidden_states' = Some(out.outputs[1].value)
                /\ all_attentions' =
                       IF config.output_attentions
                       THEN CollectAttentions(all_attentions, out.outputs)
                       ELSE all_attentions
                /\ all_hidden_states' =
                       IF config.output_hidden_states
                       THEN CollectHiddenStates(all_hidden_states, out.outputs)
                       ELSE all_hidden_states
                /\ i' = i + 1
    /\ UNCHANGED <<config, model_class, args, input_shape, attention_mask,
                   token_type_ids, extended_attention_mask, head_mask,
                   embedding_output, outputs, start_positions, end_positions,
                   start_loss, end_loss, loss_fct,
                   masked_lm_loss, model_vars>>

\* lines 342-347: (hidden_states,) + (all_hidden_states,)? + (all_attentions,)?
EncoderOutputs(c, hs, ahs, aat) ==
    << NV("last_hidden_state", hs) >>
    \o (IF c.output_hidden_states THEN << NV("hidden_states", ahs) >> ELSE <<>>)
    \o (IF c.output_attentions THEN << NV("attentions", aat) >> ELSE <<>>)

\* lines 542-546: (sequence_output, pooled_output) + encoder_outputs[1:]
ModelOutputs(encoder_outputs) ==
    << encoder_outputs[1], NV("pooler_output", encoder_outputs[1].value) >>
    \o Tail(encoder_outputs)

\* lines 342-347 and 542-547: the loop is over, the encoder and the model return
AlbertModel_forward_return ==
    /\ pc = "encoder"
    /\ i = config.num_hidden_layers
    /\ outputs' = ModelOutputs(EncoderOutputs(config, Val(hidden_states),
                                              all_hidden_states, all_attentions))
    /\ pc' = IF model_class = "AlbertModel" THEN "done" ELSE "head"
    /\ UNCHANGED <<config, model_class, args, error, input_shape, attention_mask,
                   token_type_ids, extended_attention_mask, head_mask,
                   embedding_output, hidden_states, all_hidden_states,
                   all_attentions, i, start_positions, end_positions,
                   start_loss, end_loss, loss_fct,
                   masked_lm_loss, model_vars>>

Next ==
    \/ AlbertModel_forward
    \/ AlbertTransformer_forward_iter
    \/ AlbertModel_forward_return

Spec == Init /\ [][Next]_vars

\* AlbertModel with one layer group of one layer, called with any
\* attention_mask and with token_type_ids omitted, all 0 or all 1
InitMask ==
    /\ model_class = "AlbertModel"
    /\ config \in {c \in Configs : /\ c.num_hidden_groups = 1
                                   /\ c.inner_group_num = 1
                                   /\ ~c.output_hidden_states
                                   /\ ~c.output_attentions
                                   /\ c.num_labels = 2}
    /\ \E B \in 1..MaxBatch, S \in 1..MaxSeqLen :
          args \in {CallArgs(io[1], io[2], am, tt, None, NoLabels) :
                       io \in {<<Some(<<B, S>>), None>>,
                               <<None, Some(<<B, S, config.embedding_size>>)>>},
                       am \in Opt(Matrix(B, S, {0, 1})),
                       tt \in Opt({Full(<<B, S>>, 0), Full(<<B, S>>, 1)})}
    /\ Locals

SpecMask == InitMask /\ [][Next]_vars

\* ------------------------------------------------------------ the losses
\* the examples whose target is not the ignore_index
LossTerms(target, ignore_index) ==
    {b \in DOMAIN target : target[b] # ignore_index}

\* torch.nn.CrossEntropyLoss(ignore_index)(logits, target), reduction mean: nll[b]
\* is -log_softmax(logits[b])[target[b]], the one value of the logits it reads
CrossEntropyLoss(nll, target, ignore_index) ==
    [num |-> SumOver(nll, LossTerms(target, ignore_index)),
     den |-> Cardinality(LossTerms(target, ignore_index)),
     terms |-> LossTerms(target, ignore_index)]

\* torch.nn.MSELoss()(x, y), reduction mean
MSELoss(x, y) ==
    [num |-> SumOver([b \in DOMAIN x |-> (x[b] - y[b]) * (x[b] - y[b])], DOMAIN x),
     den |-> Cardinality(DOMAIN x),
     terms |-> DOMAIN x]

LossValue(l) == [num |-> l.num, den |-> l.den]

\* -log_softmax over n classes at the target, one value per example of the
\* batch: 0 when there is one class, positive when there are more
NLLValues(B, n) == [1..B -> IF n = 1 THEN {0} ELSE 1..MaxNLL]

\* the scores of a regression head, one per example of the batch
LogitValues(B) == [1..B -> 0..MaxNLL]

\* ------------------------------------ AlbertForQuestionAnswering.forward
\* lines 792-793: positions.clamp_(0, ignored_index)
Clamp(t, lo, hi) == [b \in DOMAIN t |-> Max(lo, Min(t[b], hi))]

QAExtrasWithPooled(outs) == SubSeq(outs, 2, Len(outs))

\* line 783: outputs[2:]
QAExtras(outs) == SubSeq(outs, 3, Len(outs))

\* line 798: (start_loss + end_loss) / 2
TotalLoss(s, e) ==
    [num |-> s.num * e.den + e.num * s.den, den |-> s.den * e.den * 2]

\* lines 776-801, after self.albert(...) has returned
AlbertForQuestionAnswering_forward ==
    /\ pc = "head"
    /\ model_class = "AlbertForQuestionAnswering"
    /\ IF config.num_labels # 2
       THEN \* line 779: logits.split(1, dim=-1) does not unpack into two
            /\ pc' = "raised"
            /\ error' = "ValueError"
            /\ UNCHANGED <<outputs, start_positions, end_positions,
                           start_loss, end_loss>>
       ELSE \E start_nll \in NLLValues(input_shape[1], input_shape[2]),
               end_nll \in NLLValues(input_shape[1], input_shape[2]) :
            LET outs == << NV("start_logits", input_shape),
                           NV("end_logits", input_shape) >> \o QAExtras(outputs)
                ignored_index == input_shape[2]
            IN  /\ pc' = "done"
                /\ error' = ""
                /\ IF start_positions # None /\ end_positions # None
                   THEN LET sp == Clamp(Val(start_positions), 0, ignored_index)
                            ep == Clamp(Val(end_positions), 0, ignored_index)
                            sl == CrossEntropyLoss(start_nll, sp, ignored_index)
                            el == CrossEntropyLoss(end_nll, ep, ignored_index)
                        IN  /\ start_positions' = Some(sp)
                            /\ end_positions' = Some(ep)
                            /\ start_loss' = Some(sl)
                            /\ end_loss' = Some(el)
                            /\ outputs' = << NV("loss", TotalLoss(sl, el)) >> \o outs
                   ELSE /\ outputs' = outs
                        /\ UNCHANGED <<start_positions, end_positions,
                                       start_loss, end_loss>>
    /\ UNCHANGED <<config, model_class, args, input_shape, attention_mask,
                   token_type_ids, extended_attention_mask, head_mask,
                   embedding_output, hidden_states, all_hidden_states,
                   all_attentions, i, loss_fct,
                   masked_lm_loss, model_vars>>

\* the heads' specifications construct the encoder with one group of one layer
OneLayerConfigs ==
    {c \in Configs : /\ c.num_hidden_layers = 1
                     /\ c.num_hidden_groups = 1
                     /\ c.inner_group_num = 1}

\* AlbertForQuestionAnswering on batches of 1 or 2 sequences of 1 or 2 tokens,
\* with any start_positions and end_positions in -1..sequence_length + 1, or
\* without
InitQA ==
    /\ model_class = "AlbertForQuestionAnswering"
    /\ config \in OneLayerConfigs
    /\ \E B \in {1, 2}, S \in {1, 2} :
          args \in {CallArgs(Some(<<B, S>>), None, None, None, None,
                             [NoLabels EXCEPT !.start_positions = sp,
                                              !.end_positions = ep]) :
                       sp \in Opt([1..B -> (-1)..(S + 1)]),
                       ep \in Opt([1..B -> (-1)..(S + 1)])}
    /\ Locals

NextQA ==
    \/ AlbertModel_forward
    \/ AlbertTransformer_forward_iter
    \/ AlbertModel_forward_return
    \/ AlbertForQuestionAnswering_forward

SpecQA == InitQA /\ [][NextQA]_vars

\* ------------------------------- AlbertForSequenceClassification.forward
IsRegressionOffByOne(c) == c.num_labels <= 2

\* line 699: self.num_labels == 1
IsRegression(c) == c.num_labels = 1

\* line 696: outputs[2:]
ClsExtras(outs) == SubSeq(outs, 3, Len(outs))

\* lines 691-708, after self.albert(...) has returned
AlbertForSequenceClassification_forward ==
    /\ pc = "head"
    /\ model_class = "AlbertForSequenceClassification"
    /\ \E z \in LogitValues(input_shape[1])
                   \cup NLLValues(input_shape[1], config.num_labels) :
          LET outs == << NV("logits", <<input_shape[1], config.num_labels>>) >>
                      \o ClsExtras(outputs)
          IN  IF args.labels # None
              THEN IF IsRegression(config)
                   THEN /\ loss_fct' = "MSELoss"
                        /\ outputs' = << NV("loss", LossValue(MSELoss(z, Val(args.labels)))) >>
                                      \o outs
                   ELSE /\ loss_fct' = "CrossEntropyLoss"
                        /\ outputs' = << NV("loss", LossValue(
                                             CrossEntropyLoss(z, Val(args.labels), -100))) >>
                                      \o outs
              ELSE /\ loss_fct' = ""
                   /\ outputs' = outs
    /\ pc' = "done"
    /\ UNCHANGED <<config, model_class, args, error, input_shape, attention_mask,
                   token_type_ids, extended_attention_mask, head_mask,
                   embedding_output, hidden_states, all_hidden_states,
                   all_attentions, i, start_positions, end_positions,
                   start_loss, end_loss,
                   masked_lm_loss, model_vars>>

\* the labels of a batch: class indices, or 0 / 1 as regression targets
LabelValues(c) == IF c.num_labels = 1 THEN 0..1 ELSE 0..(c.num_labels - 1)

\* AlbertForSequenceClassification on batches of 1 or 2 one-token sequences,
\* with or without labels
InitCls ==
    /\ model_class = "AlbertForSequenceClassification"
    /\ config \in OneLayerConfigs
    /\ \E B \in {1, 2} :
          args \in {CallArgs(Some(<<B, 1>>), None, None, None, None,
                             [NoLabels EXCEPT !.labels = lab]) :
                       lab \in Opt([1..B -> LabelValues(config)])}
    /\ Locals

NextCls ==
    \/ AlbertModel_forward
    \/ AlbertTransformer_forward_iter
    \/ AlbertModel_forward_return
    \/ AlbertForSequenceClassification_forward

SpecCls == InitCls /\ [][NextCls]_vars

\* ------------------------------------------ AlbertForMaskedLM.forward
\* t.view(-1) of a (batch_size, sequence_length) tensor
Flatten(t, shape) ==
    [n \in 1..(shape[1] * shape[2]) |->
        t[((n - 1) \div shape[2]) + 1][((n - 1) % shape[2]) + 1]]

MaskedLMLossDefaultIgnoreIndex(nll, labels) == CrossEntropyLoss(nll, labels, -100)

\* lines 628-629: CrossEntropyLoss(ignore_index=-1) over the flattened tokens
MaskedLMLoss(nll, labels) == CrossEntropyLoss(nll, labels, -1)

\* line 626: outputs[2:]
MLMExtras(outs) == SubSeq(outs, 3, Len(outs))

\* lines 622-632, after self.albert(...) has returned
AlbertForMaskedLM_forward ==
    /\ pc = "head"
    /\ model_class = "AlbertForMaskedLM"
    /\ \E nll \in NLLValues(input_shape[1] * input_shape[2], VocabSize) :
          LET outs == << NV("prediction_scores", input_shape \o <<VocabSize>>) >>
                      \o MLMExtras(outputs)
          IN  IF args.masked_lm_labels # None
              THEN LET l == MaskedLMLoss(nll,
                                Flatten(Val(args.masked_lm_labels), input_shape))
                   IN  /\ masked_lm_loss' = Some(l)
                       /\ outputs' = << NV("loss", LossValue(l)) >> \o outs
              ELSE /\ masked_lm_loss' = None
                   /\ outputs' = outs
    /\ pc' = "done"
    /\ UNCHANGED <<config, model_class, args, error, input_shape, attention_mask,
                   token_type_ids, extended_attention_mask, head_mask,
                   embedding_output, hidden_states, all_hidden_states,
                   all_attentions, i, start_positions, end_positions,
                   start_loss, end_loss, loss_fct, model_vars>>

\* AlbertForMaskedLM on batches of 1 or 2 sequences of 1 or 2 tokens, with any
\* masked_lm_labels in -1..vocab_size - 1, or without
InitMLM ==
    /\ model_class = "AlbertForMaskedLM"
    /\ config \in {c \in OneLayerConfigs : c.num_labels = 2}
    /\ \E B \in {1, 2}, S \in {1, 2} :
          args \in {CallArgs(Some(<<B, S>>), None, None, None, None,
                             [NoLabels EXCEPT !.masked_lm_labels = lab]) :
                       lab \in Opt(Matrix(B, S, (-1)..(VocabSize - 1)))}
    /\ Locals

NextMLM ==
    \/ AlbertModel_forward
    \/ AlbertTransformer_forward_iter
    \/ AlbertModel_forward_return
    \/ AlbertForMaskedLM_forward

SpecMLM == InitMLM /\ [][NextMLM]_vars

\* ---------------------------------------------- AlbertModel._prune_heads
\* the heads of an attention module with two heads
PrunableHeads == 0..1

\* heads_to_prune.items(), in the dict's order: at most two layer numbers, each
\* once, from 0 to the number of layers (the first number that names no layer)
HeadsToPrune(c) ==
    LET layers == 0..(c.num_hidden_groups * c.inner_group_num)
        items == [layer : layers, heads : SUBSET PrunableHeads]
    IN  {<<>>} \cup {<<x>> : x \in items}
        \cup {<<xy[1], xy[2]>> : xy \in {z \in items \X items : z[1].layer # z[2].layer}}

PruneGroupIdxByGroups(c, layer) == layer \div c.num_hidden_groups

\* line 500: int(layer / self.config.inner_group_num), layer >= 0
PruneGroupIdx(c, layer) == layer \div c.inner_group_num

\* line 501: int(layer - group_idx * self.config.inner_group_num)
PruneInnerGroupIdx(c, layer) == layer - PruneGroupIdx(c, layer) * c.inner_group_num

\* lines 186-207, AlbertAttention.prune_heads: the heads newly pruned
NewlyPruned(heads, pruned) == heads \ pruned

\* lines 499-502, one iteration of the loop over heads_to_prune.items(); i counts
\* the items already handled
AlbertModel_prune_heads_iter ==
    /\ pc = "prune"
    /\ i < Len(heads_to_prune)
    /\ LET layer == heads_to_prune[i + 1].layer
           heads == heads_to_prune[i + 1].heads
           m == <<PruneGroupIdx(config, layer), PruneInnerGroupIdx(config, layer)>>
       IN  IF m \notin AlbertLayerModules(config)
           THEN /\ pc' = "raised"
                /\ error' = "IndexError"
                /\ UNCHANGED <<i, pruned_heads, num_attention_heads>>
           ELSE /\ i' = i + 1
                /\ IF heads = {}
                   THEN UNCHANGED <<pruned_heads, num_attention_heads>>
                   ELSE /\ num_attention_heads' =
                              [num_attention_heads EXCEPT ![m] =
                                  @ - Cardinality(NewlyPruned(heads, pruned_heads[m]))]
                        /\ pruned_heads' =
                              [pruned_heads EXCEPT ![m] =
                                  @ \cup NewlyPruned(heads, pruned_heads[m])]
                /\ UNCHANGED <<pc, error>>
    /\ UNCHANGED <<config, model_class, args, input_shape, attention_mask,
                   token_type_ids, extended_attention_mask, head_mask,
                   embedding_output, hidden_states, all_hidden_states,
                   all_attentions, outputs, start_positions, end_positions,
                   start_loss, end_loss, loss_fct, masked_lm_loss,
                   heads_to_prune, tf_vars, tf_index, parameters, name,
                   error_args>>

\* line 499: the loop is over
AlbertModel_prune_heads_return ==
    /\ pc = "prune"
    /\ i = Len(heads_to_prune)
    /\ pc' = "done"
    /\ UNCHANGED <<config, model_class, args, error, input_shape, attention_mask,
                   token_type_ids, extended_attention_mask, head_mask,
                   embedding_output, hidden_states, all_hidden_states,
                   all_attentions, i, outputs, start_positions, end_positions,
                   start_loss, end_loss, loss_fct, masked_lm_loss, model_vars>>

\* a freshly constructed AlbertModel of any topology with two heads per
\* attention module, and a call of _prune_heads
InitPrune ==
    /\ model_class = "AlbertModel"
    /\ config \in {[c EXCEPT !.num_attention_heads = 2] :
                      c \in {d \in Configs : /\ d.num_labels = 2
                                             /\ ~d.output_hidden_states
                                             /\ ~d.output_attentions}}
    /\ args = CallArgs(None, None, None, None, None, NoLabels)
    /\ pc = "prune"
    /\ NotCalled
    /\ Unpruned
    /\ heads_to_prune \in HeadsToPrune(config)
    /\ tf_vars = <<>>
    /\ tf_index = 0
    /\ parameters = <<>>
    /\ name = ""
    /\ error_args = <<>>

NextPrune ==
    \/ AlbertModel_prune_heads_iter
    \/ AlbertModel_prune_heads_return

SpecPrune == InitPrune /\ [][NextPrune]_vars

\* ---------------------------------------------- load_tf_weights_in_albert
\* sub in s, for strings
Contains(s, sub) ==
    \E k \in 1..(Len(s) - Len(sub) + 1) : SubSeq(s, k, k + Len(sub) - 1) = sub

\* s.find(sub) + 1, when sub is in s
Find(s, sub) ==
    LET found == {k \in 1..(Len(s) - Len(sub) + 1) : SubSeq(s, k, k + Len(sub) - 1) = sub}
    IN  CHOOSE k \in found : \A m \in found : k <= m

\* str.replace(old, new): every non-overlapping occurrence, leftmost first
RECURSIVE Replace(_, _, _)
Replace(s, old, new) ==
    IF ~Contains(s, old) THEN s
    ELSE LET k == Find(s, old)
         IN  SubSeq(s, 1, k - 1) \o new \o Replace(SubSeq(s, k + Len(old), Len(s)), old, new)

\* s.split(sep), sep one character
RECURSIVE Split(_, _)
Split(s, sep) ==
    IF ~Contains(s, sep) THEN <<s>>
    ELSE LET k == Find(s, sep)
         IN  <<SubSeq(s, 1, k - 1)>> \o Split(SubSeq(s, k + 1, Len(s)), sep)

ReplacementsGroupsFirst ==
    << <<"module/", "">>,
       <<"ffn_1", "ffn">>,
       <<"bert/", "albert/">>,
       <<"attention_1", "attention">>,
       <<"transform/", "">>,
       <<"LayerNorm_1", "full_layer_layer_norm">>,
       <<"LayerNorm", "attention/LayerNorm">>,
       <<"transformer/", "">>,
       <<"intermediate/dense/", "">>,
       <<"ffn/intermediate/output/dense/", "ffn_output/">>,
       <<"/output/", "/">>,
       <<"/self/", "/">>,
       <<"pooler/dense", "pooler">>,
       <<"cls/predictions", "predictions">>,
       <<"predictions/attention", "predictions">>,
       <<"embeddings/attention", "embeddings">>,
       <<"group_", "albert_layer_groups/">>,
       <<"inner_group_", "albert_layers/">> >>

\* lines 74-103: the substitutions, in the order they are applied
Replacements ==
    << <<"module/", "">>,
       <<"ffn_1", "ffn">>,
       <<"bert/", "albert/">>,
       <<"attention_1", "attention">>,
       <<"transform/", "">>,
       <<"LayerNorm_1", "full_layer_layer_norm">>,
       <<"LayerNorm", "attention/LayerNorm">>,
       <<"transformer/", "">>,
       <<"intermediate/dense/", "">>,
       <<"ffn/intermediate/output/dense/", "ffn_output/">>,
       <<"/output/", "/">>,
       <<"/self/", "/">>,
       <<"pooler/dense", "pooler">>,
       <<"cls/predictions", "predictions">>,
       <<"predictions/attention", "predictions">>,
       <<"embeddings/attention", "embeddings">>,
       <<"inner_group_", "albert_layers/">>,
       <<"group_", "albert_layer_groups/">> >>

RECURSIVE ApplyReplacements(_, _)
ApplyReplacements(s, rs) ==
    IF rs = <<>> THEN s
    ELSE ApplyReplacements(Replace(s, Head(rs)[1], Head(rs)[2]), Tail(rs))

\* lines 106-107: a bare output_bias / output_weights belongs to the classifier
ClassifierPrefix(s) ==
    IF Len(Split(s, "/")) = 1 /\ (Contains(s, "output_bias") \/ Contains(s, "output_weights"))
    THEN "classifier/" \o s
    ELSE s

\* lines 74-107: name as it stands on line 110
RemapName(original_name) == ClassifierPrefix(ApplyReplacements(original_name, Replacements))

\* line 110
IsNextSentencePrediction(s) == Contains(s, "seq_relationship")

IsOptimizerStateNoAdamV(path) ==
    \E n \in 1..Len(path) : path[n] \in {"adam_m", "global_step"}

\* line 116, name being the list of path components
IsOptimizerState(path) ==
    \E n \in 1..Len(path) : path[n] \in {"adam_m", "adam_v", "global_step"}

Letters ==
    {"a", "b", "c", "d", "e", "f", "g", "h", "i", "j", "k", "l", "m", "n", "o", "p",
     "q", "r", "s", "t", "u", "v", "w", "x", "y", "z", "A", "B", "C", "D", "E", "F",
     "G", "H", "I", "J", "K", "L", "M", "N", "O", "P", "Q", "R", "S", "T", "U", "V",
     "W", "X", "Y", "Z"}

DigitChars == {"0", "1", "2", "3", "4", "5", "6", "7", "8", "9"}

\* line 122: re.fullmatch(r'[A-Za-z]+_\d+', m_name), at underscore position p
FullMatchAt(m_name, p) ==
    /\ SubSeq(m_name, p, p) = "_"
    /\ \A q \in 1..(p - 1) : SubSeq(m_name, q, q) \in Letters
    /\ \A q \in (p + 1)..Len(m_name) : SubSeq(m_name, q, q) \in DigitChars

FullMatch(m_name) == \E p \in 2..(Len(m_name) - 1) : FullMatchAt(m_name, p)

\* lines 122-125: l without the trailing '' of re.split
SplitIndexed(m_name) ==
    IF FullMatch(m_name)
    THEN LET p == CHOOSE q \in 2..(Len(m_name) - 1) : FullMatchAt(m_name, q)
         IN  <<SubSeq(m_name, 1, p - 1), SubSeq(m_name, p + 1, Len(m_name))>>
    ELSE <<m_name>>

\* line 142: int(l[1]), as the key of a ModuleList entry
RECURSIVE ParseInt(_)
ParseInt(s) ==
    IF s = "" THEN 0
    ELSE 10 * ParseInt(SubSeq(s, 1, Len(s) - 1))
         + (CHOOSE d \in 0..9 : ToString(d) = SubSeq(s, Len(s), Len(s)))

\* the parameters of a torch.nn.Linear(in_features, out_features) at a path
Linear(prefix, in_features, out_features) ==
    {[path |-> prefix \o <<"weight">>, shape |-> <<out_features, in_features>>],
     [path |-> prefix \o <<"bias">>, shape |-> <<out_features>>]}

LayerNorm(prefix, n) ==
    {[path |-> prefix \o <<"weight">>, shape |-> <<n>>],
     [path |-> prefix \o <<"bias">>, shape |-> <<n>>]}

Embedding(prefix, num, dim) == {[path |-> prefix \o <<"weight">>, shape |-> <<num, dim>>]}

\* lines 164-170
AlbertEmbeddingsParameters(prefix, c) ==
    Embedding(prefix \o <<"word_embeddings">>, c.vocab_size, c.embedding_size)
    \cup Embedding(prefix \o <<"position_embeddings">>, c.max_position_embeddings,
                   c.embedding_size)
    \cup Embedding(prefix \o <<"token_type_embeddings">>, c.type_vocab_size,
                   c.embedding_size)
    \cup LayerNorm(prefix \o <<"LayerNorm">>, c.embedding_size)

\* lines 174-184 and 254-262; query, key and value come from BertSelfAttention
AlbertLayerParameters(prefix, c) ==
    LayerNorm(prefix \o <<"full_layer_layer_norm">>, c.hidden_size)
    \cup Linear(prefix \o <<"attention", "query">>, c.hidden_size, c.hidden_size)
    \cup Linear(prefix \o <<"attention", "key">>, c.hidden_size, c.hidden_size)
    \cup Linear(prefix \o <<"attention", "value">>, c.hidden_size, c.hidden_size)
    \cup Linear(prefix \o <<"attention", "dense">>, c.hidden_size, c.hidden_size)
    \cup LayerNorm(prefix \o <<"attention", "LayerNorm">>, c.hidden_size)
    \cup Linear(prefix \o <<"ffn">>, c.hidden_size, c.intermediate_size)
    \cup Linear(prefix \o <<"ffn_output">>, c.intermediate_size, c.hidden_size)

\* lines 275-280 and 305-312; a ModuleList keeps entry n under the name str(n)
AlbertTransformerParameters(prefix, c) ==
    Linear(prefix \o <<"embedding_hidden_mapping_in">>, c.embedding_size, c.hidden_size)
    \cup UNION {AlbertLayerParameters(
                    prefix \o <<"albert_layer_groups", ToString(m[1]),
                                "albert_layers", ToString(m[2])>>, c) :
                m \in AlbertLayerModules(c)}

\* lines 463-471
AlbertModelParameters(prefix, c) ==
    AlbertEmbeddingsParameters(prefix \o <<"embeddings">>, c)
    \cup AlbertTransformerParameters(prefix \o <<"encoder">>, c)
    \cup Linear(prefix \o <<"pooler">>, c.hidden_size, c.hidden_size)

\* lines 550-557 and 593-608: predictions.decoder.weight is tied to the word
\* embeddings and is the same Parameter object, so it has no entry of its own
AlbertForMaskedLMParameters(c) ==
    AlbertModelParameters(<<"albert">>, c)
    \cup LayerNorm(<<"predictions", "LayerNorm">>, c.embedding_size)
    \cup {[path |-> <<"predictions", "bias">>, shape |-> <<c.vocab_size>>]}
    \cup Linear(<<"predictions", "dense">>, c.hidden_size, c.embedding_size)
    \cup {[path |-> <<"predictions", "decoder", "bias">>, shape |-> <<c.vocab_size>>]}

\* the model's parameters after init_weights(): shapes, data not from a checkpoint
InitialParameters(c) ==
    LET ps == AlbertForMaskedLMParameters(c)
    IN  [p \in {r.path : r \in ps} |->
            [shape |-> (CHOOSE r \in ps : r.path = p).shape, data |-> "init_weights"]]

\* getattr(pointer, attr) finds a submodule or a parameter
HasAttr(pointer, attr) ==
    \E p \in DOMAIN parameters :
        /\ Len(p) > Len(pointer)
        /\ SubSeq(p, 1, Len(pointer) + 1) = Append(pointer, attr)

\* pointer is an nn.ModuleList
IsModuleList(pointer) ==
    /\ pointer # <<>>
    /\ pointer[Len(pointer)] \in {"albert_layer_groups", "albert_layers"}

\* lines 127-137: the attribute read for l[0], and whether a missing attribute
\* is caught (line 138)
AttrOf(l0) ==
    IF l0 \in {"kernel", "gamma", "output_weights"} THEN "weight"
    ELSE IF l0 \in {"output_bias", "beta"} THEN "bias"
    ELSE IF l0 = "squad" THEN "classifier"
    ELSE l0

Caught(l0) == l0 \notin {"kernel", "gamma", "output_weights", "output_bias", "beta", "squad"}

\* lines 120-143: the loop over the components of name; the continue of line
\* 140 goes on with the next component and the pointer where it was
RECURSIVE Walk(_, _)
Walk(pointer, names) ==
    IF names = <<>> THEN [pointer |-> pointer, error |-> ""]
    ELSE LET l == SplitIndexed(Head(names))
             next == Append(pointer, AttrOf(l[1]))
         IN  IF ~HasAttr(pointer, AttrOf(l[1]))
             THEN IF Caught(l[1])
                  THEN Walk(pointer, Tail(names))
                  ELSE [pointer |-> pointer, error |-> "AttributeError"]
             ELSE IF Len(l) >= 2
                  THEN IF ~IsModuleList(next)
                       THEN [pointer |-> next, error |-> "TypeError"]
                       ELSE IF ~HasAttr(next, ToString(ParseInt(l[2])))
                            THEN [pointer |-> next, error |-> "IndexError"]
                            ELSE Walk(Append(next, ToString(ParseInt(l[2]))), Tail(names))
                  ELSE Walk(next, Tail(names))

\* line 145: m_name[-11:] == '_embeddings'
IsEmbeddings(m_name) ==
    /\ Len(m_name) >= 11
    /\ SubSeq(m_name, Len(m_name) - 10, Len(m_name)) = "_embeddings"

\* np.transpose(array).shape
Transposed(shape) == [n \in 1..Len(shape) |-> shape[Len(shape) + 1 - n]]

ArrayShapeAsStored(m_name, shape) == shape

\* lines 145-148: array.shape on line 150
ArrayShape(m_name, shape) ==
    IF ~IsEmbeddings(m_name) /\ m_name = "kernel" THEN Transposed(shape) ELSE shape

\* the variables of the TF checkpoint of an ALBERT pretrained with this config
\* (Adam slots and global_step included; the last one as a TF-Hub module saves it)
CheckpointVariables(c) ==
    LET V == c.vocab_size
        E == c.embedding_size
        H == c.hidden_size
        I == c.intermediate_size
        layer(g, k) == "bert/encoder/transformer/group_" \o g \o "/inner_group_" \o k
    IN  {[name |-> "global_step", shape |-> <<>>],
         [name |-> "bert/embeddings/word_embeddings", shape |-> <<V, E>>],
         [name |-> "bert/embeddings/word_embeddings/adam_m", shape |-> <<V, E>>],
         [name |-> "bert/embeddings/LayerNorm/gamma", shape |-> <<E>>],
         [name |-> "bert/encoder/embedding_hidden_mapping_in/kernel", shape |-> <<E, H>>],
         [name |-> layer("0", "1") \o "/LayerNorm/beta", shape |-> <<H>>],
         [name |-> layer("1", "0") \o "/LayerNorm_1/gamma", shape |-> <<H>>],
         [name |-> layer("0", "0") \o "/attention_1/self/query/kernel", shape |-> <<H, H>>],
         [name |-> layer("1", "1") \o "/attention_1/output/dense/bias", shape |-> <<H>>],
         [name |-> layer("0", "0") \o "/ffn_1/intermediate/dense/kernel", shape |-> <<H, I>>],
         [name |-> layer("0", "0") \o "/ffn_1/intermediate/output/dense/kernel",
          shape |-> <<I, H>>],
         [name |-> layer("0", "0") \o "/ffn_1/intermediate/output/dense/kernel/adam_v",
          shape |-> <<I, H>>],
         [name |-> layer("1", "1") \o "/ffn_1/intermediate/output/dense/bias/adam_v",
          shape |-> <<H>>],
         [name |-> "bert/pooler/dense/kernel", shape |-> <<H, H>>],
         [name |-> "cls/predictions/output_bias", shape |-> <<V>>],
         [name |-> "cls/predictions/transform/LayerNorm/beta", shape |-> <<E>>],
         [name |-> "cls/predictions/transform/dense/kernel", shape |-> <<H, E>>],
         [name |-> "cls/seq_relationship/output_weights", shape |-> <<2, H>>],
         [name |-> "cls/seq_relationship/output_bias", shape |-> <<2>>],
         [name |-> "module/bert/embeddings/token_type_embeddings",
          shape |-> <<c.type_vocab_size, E>>]}

\* the same variables in the checkpoint of a model one unit larger in every size
LargerVariables(c) ==
    {[name |-> v.name, shape |-> [n \in 1..Len(v.shape) |-> v.shape[n] + 1]] :
        v \in {w \in CheckpointVariables(c) : w.shape # <<>>}}

\* zip(names, arrays): one or two variables with different names
Checkpoints(c) ==
    LET pool == CheckpointVariables(c) \cup LargerVariables(c)
    IN  {<<v>> : v \in pool}
        \cup {<<vw[1], vw[2]>> : vw \in {x \in pool \X pool : x[1].name # x[2].name}}

\* lines 70-155, one iteration of the loop over zip(names, arrays); tf_index
\* counts the variables the loop is done with
load_tf_weights_in_albert_iter ==
    /\ pc = "load"
    /\ tf_index < Len(tf_vars)
    /\ LET original_name == tf_vars[tf_index + 1].name
           array == tf_vars[tf_index + 1]
           remapped == RemapName(original_name)
           path == Split(remapped, "/")
           m_name == path[Len(path)]
           walked == Walk(<<>>, path)
           pointer == IF IsEmbeddings(m_name)
                      THEN Append(walked.pointer, "weight")
                      ELSE walked.pointer
           array_shape == ArrayShape(m_name, array.shape)
       IN  /\ name' = remapped
           /\ IF IsNextSentencePrediction(remapped) \/ IsOptimizerState(path)
              THEN /\ tf_index' = tf_index + 1
                   /\ UNCHANGED <<pc, error, error_args, parameters>>
              ELSE IF walked.error # ""
              THEN /\ pc' = "raised"
                   /\ error' = walked.error
                   /\ UNCHANGED <<tf_index, error_args, parameters>>
              ELSE IF pointer \notin DOMAIN parameters
              THEN /\ pc' = "raised"
                   /\ error' = "AttributeError"
                   /\ UNCHANGED <<tf_index, error_args, parameters>>
              ELSE IF parameters[pointer].shape # array_shape
              THEN /\ pc' = "raised"
                   /\ error' = "AssertionError"
                   /\ error_args' = <<parameters[pointer].shape, array_shape>>
                   /\ UNCHANGED <<tf_index, parameters>>
              ELSE /\ parameters' = [parameters EXCEPT ![pointer] =
                                        [shape |-> array_shape, data |-> original_name]]
                   /\ tf_index' = tf_index + 1
                   /\ UNCHANGED <<pc, error, error_args>>
    /\ UNCHANGED <<config, model_class, args, input_shape, attention_mask,
                   token_type_ids, extended_attention_mask, head_mask,
                   embedding_output, hidden_states, all_hidden_states,
                   all_attentions, i, outputs, start_positions, end_positions,
                   start_loss, end_loss, loss_fct, masked_lm_loss,
                   pruned_heads, num_attention_heads, heads_to_prune, tf_vars>>

\* line 157
load_tf_weights_in_albert_return ==
    /\ pc = "load"
    /\ tf_index = Len(tf_vars)
    /\ pc' = "done"
    /\ UNCHANGED <<config, model_class, args, error, input_shape, attention_mask,
                   token_type_ids, extended_attention_mask, head_mask,
                   embedding_output, hidden_states, all_hidden_states,
                   all_attentions, i, outputs, start_positions, end_positions,
                   start_loss, end_loss, loss_fct, masked_lm_loss, model_vars>>

\* the sizes of the model the checkpoint is loaded into: two groups of two layers
LoadConfigs ==
    {c @@ [vocab_size |-> 5, hidden_size |-> 3, intermediate_size |-> 4,
           max_position_embeddings |-> 6, type_vocab_size |-> 2] :
        c \in {d \in Configs : /\ d.num_hidden_layers = 2
                               /\ d.num_hidden_groups = 2
                               /\ d.inner_group_num = 2
                               /\ d.num_labels = 2
                               /\ ~d.output_hidden_states
                               /\ ~d.output_attentions}}

\* a freshly constructed AlbertForMaskedLM and a call of
\* load_tf_weights_in_albert on a checkpoint
InitLoad ==
    /\ model_class = "AlbertForMaskedLM"
    /\ config \in LoadConfigs
    /\ args = CallArgs(None, None, None, None, None, NoLabels)
    /\ pc = "load"
    /\ NotCalled
    /\ Unpruned
    /\ heads_to_prune = <<>>
    /\ tf_index = 0
    /\ parameters = InitialParameters(config)
    /\ name = ""
    /\ error_args = <<>>
    /\ tf_vars \in Checkpoints(config)

NextLoad ==
    \/ load_tf_weights_in_albert_iter
    \/ load_tf_weights_in_albert_return

SpecLoad == InitLoad /\ [][NextLoad]_vars

\* =================================================== the claims, C1 - C5
BothGiven == args.input_ids # None /\ args.inputs_embeds # None
NeitherGiven == args.input_ids = None /\ args.inputs_embeds = None

\* C1: AlbertModel.forward raises a ValueError when both input_ids and
\* inputs_embeds are supplied and when neither is, and no ValueError when
\* exactly one is; in the error cases no embedding or encoder computation
\* has been started.
C1_InputValidation ==
    /\ (BothGiven \/ NeitherGiven) /\ pc # "forward"
          => /\ pc = "raised"
             /\ error = "ValueError"
             /\ embedding_output = None
             /\ hidden_states = None
             /\ all_hidden_states = <<>>
             /\ all_attentions = <<>>
             /\ i = 0
    /\ ~(BothGiven \/ NeitherGiven)
          => /\ error # "ValueError"
             /\ pc # "forward" => embedding_output # None /\ hidden_states # None

C1_Witness ==
    /\ pc = "raised"
    /\ error = "ValueError"
    /\ BothGiven

\* the AlbertLayer modules applied in iteration it of the encoder loop, in order
ModulesApplied(hs, it) ==
    LET s == SelectSeq(hs, LAMBDA a : a.iteration = it)
    IN  [p \in 1..Len(s) |-> <<s[p].group, s[p].layer>>]

\* C2: the encoder has num_hidden_groups * inner_group_num distinct AlbertLayer
\* modules whatever num_hidden_layers is, every layer application uses one of
\* them, and two iterations of the loop that fall in the same hidden group (the
\* same block of consecutive layers) apply exactly the same modules.
C2_SharedParameters ==
    /\ Cardinality(AlbertLayerModules(config))
          = config.num_hidden_groups * config.inner_group_num
    /\ hidden_states # None =>
          LET hs == Val(hidden_states)
              G == config.num_hidden_groups
              L == config.num_hidden_layers
          IN  /\ \A p \in 1..Len(hs) :
                    <<hs[p].group, hs[p].layer>> \in AlbertLayerModules(config)
              /\ \A a, b \in 0..(i - 1) :
                    (a * G) \div L = (b * G) \div L
                       => ModulesApplied(hs, a) = ModulesApplied(hs, b)

C2_Witness ==
    /\ pc = "done"
    /\ config.num_hidden_layers = 3
    /\ config.num_hidden_groups = 2
    /\ config.inner_group_num = 1
    /\ ModulesApplied(Val(hidden_states), 0) = ModulesApplied(Val(hidden_states), 1)
    /\ ModulesApplied(Val(hidden_states), 1) # ModulesApplied(Val(hidden_states), 2)

\* C3: with output_hidden_states the hidden_states element AlbertModel.forward
\* returns has num_hidden_layers + 1 entries: the mapped embedding output, then
\* the output of each iteration of the loop in order (each extends the one
\* before by that iteration's layer applications), the last being the
\* last_hidden_state.
C3_HiddenStatesPerLayer ==
    pc = "done" /\ config.output_hidden_states =>
        /\ Len(outputs) >= 3
        /\ outputs[3].name = "hidden_states"
        /\ LET h == outputs[3].value
               L == config.num_hidden_layers
           IN  /\ Len(h) = L + 1
               /\ h[1] = <<>>
               /\ \A k \in 1..L :
                     /\ Len(h[k + 1]) = Len(h[k]) + config.inner_group_num
                     /\ SubSeq(h[k + 1], 1, Len(h[k])) = h[k]
                     /\ \A p \in (Len(h[k]) + 1)..Len(h[k + 1]) :
                           h[k + 1][p].iteration = k - 1
               /\ h[L + 1] = outputs[1].value

C3_Witness ==
    /\ pc = "done"
    /\ config.output_hidden_states
    /\ config.inner_group_num = 2
    /\ config.num_hidden_layers = 3
    /\ Len(outputs[3].value) = 4

\* C4: with output_attentions the attentions element AlbertModel.forward returns
\* has exactly num_hidden_layers entries, also when inner_group_num > 1.
C4_AttentionsOnePerLayer ==
    pc = "done" /\ config.output_attentions =>
        /\ outputs[Len(outputs)].name = "attentions"
        /\ Len(outputs[Len(outputs)].value) = config.num_hidden_layers

\* row it of the head_mask argument (the one row of a 1-D mask)
HeadMaskRowOfLayer(it) ==
    IF args.head_mask = None THEN None
    ELSE IF Val(args.head_mask).dim = 1 THEN Some(Val(args.head_mask).data[1])
    ELSE Some(Val(args.head_mask).data[it + 1])

\* C5: the attention computed in iteration i of the encoder loop is multiplied
\* by row i of a (num_layers, num_heads) head_mask (and by the one row of a 1-D
\* head_mask in every iteration).
C5_HeadMaskRowPerLayer ==
    hidden_states # None =>
        \A p \in 1..Len(Val(hidden_states)) :
            Val(hidden_states)[p].head_mask
               = HeadMaskRowOfLayer(Val(hidden_states)[p].iteration)

\* ================================================== the claims, C6 - C10
\* C6: attention_mask 1 means attended and 0 masked: a missing attention_mask
\* defaults to all ones, a missing token_type_ids to all zeros, and the additive
\* mask every layer receives is 0 where the mask is 1 and -10000 where it is 0.
C6_AttentionMask ==
    pc \in {"encoder", "done"} =>
        LET am == Val(attention_mask)
            B == input_shape[1]
            S == input_shape[2]
        IN  /\ DOMAIN am = 1..B
            /\ \A b \in 1..B : DOMAIN am[b] = 1..S
            /\ args.attention_mask = None => \A b \in 1..B, s \in 1..S : am[b][s] = 1
            /\ args.attention_mask # None => am = Val(args.attention_mask)
            /\ args.token_type_ids = None =>
                  \A b \in 1..B, s \in 1..S :
                     /\ Val(token_type_ids)[b][s] = 0
                     /\ Val(embedding_output).token_type_ids[b][s] = 0
            /\ \A p \in 1..Len(Val(hidden_states)) :
                  \A b \in 1..B, s \in 1..S :
                     Val(hidden_states)[p].attention_mask[b][s]
                        = IF am[b][s] = 1 THEN 0 ELSE -10000

C6_Witness ==
    /\ pc = "done"
    /\ args.attention_mask # None
    /\ input_shape = <<1, 2>>
    /\ Val(args.attention_mask)[1] = <<1, 0>>
    /\ Len(Val(hidden_states)) = 2
    /\ Val(hidden_states)[2].attention_mask[1] = <<0, -10000>>

RatEq(a, b) ==
    IF a.den = 0 \/ b.den = 0 THEN a.den = 0 /\ b.den = 0
    ELSE a.num * b.den = b.num * a.den

RatAdd(a, b) == [num |-> a.num * b.den + b.num * a.den, den |-> a.den * b.den]

\* C7: the total span extraction loss AlbertForQuestionAnswering.forward returns
\* is the sum of the cross-entropy of the start positions and the cross-entropy
\* of the end positions.
C7_TotalLossIsSum ==
    pc = "done" /\ start_loss # None /\ end_loss # None =>
        /\ outputs[1].name = "loss"
        /\ RatEq(outputs[1].value, RatAdd(Val(start_loss), Val(end_loss)))

\* C8: a start or end position outside 0..sequence_length-1, too large or
\* negative, contributes no term to the corresponding cross-entropy.
C8_OutsidePositionsIgnored ==
    pc = "done" /\ start_loss # None /\ end_loss # None =>
        \A b \in 1..input_shape[1] :
            /\ Val(args.start_positions)[b] \notin 0..(input_shape[2] - 1)
                  => b \notin Val(start_loss).terms
            /\ Val(args.end_positions)[b] \notin 0..(input_shape[2] - 1)
                  => b \notin Val(end_loss).terms

Names(outs) == [k \in 1..Len(outs) |-> outs[k].name]

ExtraNames ==
    (IF config.output_hidden_states THEN <<"hidden_states">> ELSE <<>>)
    \o (IF config.output_attentions THEN <<"attentions">> ELSE <<>>)

\* C9: AlbertForQuestionAnswering.forward returns (loss), start_logits,
\* end_logits, (hidden_states), (attentions) in that order, the loss first if
\* and only if both start_positions and end_positions are given; the start and
\* the end scores hold one score per token position; the pooled output is not
\* among the outputs.
C9_QAOutputs ==
    pc = "done" =>
        LET labelled == args.start_positions # None /\ args.end_positions # None
            k == IF labelled THEN 1 ELSE 0
        IN  /\ Names(outputs) = (IF labelled THEN <<"loss">> ELSE <<>>)
                                \o <<"start_logits", "end_logits">> \o ExtraNames
            /\ outputs[k + 1].value = Val(args.input_ids)
            /\ outputs[k + 2].value = Val(args.input_ids)
            /\ \A n \in 1..Len(outputs) : outputs[n].name # "pooler_output"

C9_Witness ==
    /\ pc = "done"
    /\ model_class = "AlbertForQuestionAnswering"
    /\ args.start_positions # None
    /\ args.end_positions # None
    /\ config.output_hidden_states
    /\ config.output_attentions
    /\ Names(outputs) = <<"loss", "start_logits", "end_logits", "hidden_states",
                          "attentions">>

\* C10: AlbertForSequenceClassification.forward computes a mean-square loss
\* when num_labels is 1 and a cross-entropy loss when num_labels > 1, and
\* returns (loss), logits, (hidden_states), (attentions), the loss first if and
\* only if labels is given.
C10_ClsLossAndOutputs ==
    pc = "done" =>
        /\ Names(outputs) = (IF args.labels # None THEN <<"loss">> ELSE <<>>)
                            \o <<"logits">> \o ExtraNames
        /\ args.labels # None /\ config.num_labels = 1 => loss_fct = "MSELoss"
        /\ args.labels # None /\ config.num_labels > 1 => loss_fct = "CrossEntropyLoss"
        /\ args.labels = None => loss_fct = ""
        /\ args.labels # None => outputs[1].value.den = input_shape[1]

C10_Witness ==
    /\ pc = "done"
    /\ model_class = "AlbertForSequenceClassification"
    /\ args.labels # None
    /\ config.num_labels = 2
    /\ loss_fct = "CrossEntropyLoss"
    /\ config.output_attentions
    /\ Names(outputs) = <<"loss", "logits", "attentions">>

\* ================================================= the claims, C11 - C16
\* C11: AlbertForMaskedLM.forward leaves every token whose masked_lm_labels
\* value is -1 out of the loss, which is the mean over exactly the tokens with a
\* label in the vocabulary range, and returns (loss), prediction_scores,
\* (hidden_states), (attentions), the loss first if and only if
\* masked_lm_labels is given.
C11_MaskedLMLoss ==
    pc = "done" =>
        /\ Names(outputs) = (IF args.masked_lm_labels # None THEN <<"loss">> ELSE <<>>)
                            \o <<"prediction_scores">> \o ExtraNames
        /\ args.masked_lm_labels = None => masked_lm_loss = None
        /\ args.masked_lm_labels # None =>
              LET lab == Val(args.masked_lm_labels)
                  S == input_shape[2]
                  counted == {<<b, s>> \in (1..input_shape[1]) \X (1..S) :
                                 lab[b][s] \in 0..(VocabSize - 1)}
              IN  /\ masked_lm_loss # None
                  /\ Val(masked_lm_loss).terms
                        = {(bs[1] - 1) * S + bs[2] : bs \in counted}
                  /\ \A b \in 1..input_shape[1], s \in 1..S :
                        lab[b][s] = -1 => ((b - 1) * S + s) \notin Val(masked_lm_loss).terms
                  /\ outputs[1].value.den = Cardinality(counted)

C11_Witness ==
    /\ pc = "done"
    /\ model_class = "AlbertForMaskedLM"
    /\ input_shape = <<2, 2>>
    /\ args.masked_lm_labels = Some(<< <<-1, 1>>, <<0, -1>> >>)
    /\ Val(masked_lm_loss).terms = {2, 3}
    /\ outputs[1].name = "loss"
    /\ outputs[1].value.den = 2

\* the layer numbers that address an AlbertLayer
FlattenedLayers == 0..(config.num_hidden_groups * config.inner_group_num - 1)

\* the module a flattened layer number stands for
LayerAt(layer) == <<layer \div config.inner_group_num, layer % config.inner_group_num>>

\* the items of heads_to_prune the loop has handled
Handled == {heads_to_prune[n] : n \in 1..i}

\* C12: AlbertModel._prune_heads reads layer numbers as flattened indices: a
\* layer number in 0..num_hidden_groups * inner_group_num - 1 prunes the given
\* heads in exactly the layer at group (layer div inner_group_num), inner
\* position (layer mod inner_group_num); distinct numbers address distinct
\* layers, and no other layer's attention changes.
C12_PruneFlattened ==
    pc \in {"prune", "done", "raised"} /\ model_class = "AlbertModel"
                                       /\ i <= Len(heads_to_prune) =>
        /\ \A x \in Handled : x.layer \in FlattenedLayers
        /\ pc = "raised" => heads_to_prune[i + 1].layer \notin FlattenedLayers
        /\ pc = "done" => i = Len(heads_to_prune)
        /\ \A l1, l2 \in FlattenedLayers :
              /\ LayerAt(l1) \in AlbertLayerModules(config)
              /\ l1 # l2 => LayerAt(l1) # LayerAt(l2)
        /\ \A m \in AlbertLayerModules(config) :
              LET mine == {x \in Handled : LayerAt(x.layer) = m}
              IN  /\ pruned_heads[m] = UNION {x.heads : x \in mine}
                  /\ num_attention_heads[m]
                        = config.num_attention_heads - Cardinality(pruned_heads[m])
                  /\ mine = {} => pruned_heads[m] = {}

C12_Witness ==
    /\ pc = "done"
    /\ config.num_hidden_groups = 2
    /\ config.inner_group_num = 2
    /\ heads_to_prune = << [layer |-> 3, heads |-> {0, 1}], [layer |-> 1, heads |-> {1}] >>
    /\ pruned_heads = (<<0, 0>> :> {} @@ <<0, 1>> :> {1} @@ <<1, 0>> :> {} @@ <<1, 1>> :> {0, 1})
    /\ num_attention_heads[<<1, 1>>] = 0

\* a checkpoint variable the conversion is to leave out, by its own name
Skippable(original_name) ==
    \/ Contains(original_name, "seq_relationship")
    \/ \E n \in 1..Len(Split(original_name, "/")) :
          Split(original_name, "/")[n] \in {"adam_m", "adam_v", "global_step"}

\* the checkpoint variables the loop is done with
Visited == {tf_vars[n] : n \in 1..tf_index}

\* the names of the checkpoint variables some parameter holds the data of
Assigned == {parameters[p].data : p \in DOMAIN parameters} \ {"init_weights"}

\* C13: load_tf_weights_in_albert never assigns a parameter from a checkpoint
\* variable whose name contains 'seq_relationship' or whose path has a
\* component 'adam_m', 'adam_v' or 'global_step'; such a variable is skipped
\* and the conversion goes on with the remaining variables in checkpoint order.
C13_SkipsOptimizerAndNSP ==
    pc \in {"load", "done", "raised"} /\ model_class = "AlbertForMaskedLM" =>
        /\ \A original_name \in Assigned : ~Skippable(original_name)
        /\ pc = "raised" => ~Skippable(tf_vars[tf_index + 1].name)
        /\ pc = "done" => tf_index = Len(tf_vars)
        /\ Assigned = {v.name : v \in {w \in Visited : ~Skippable(w.name)}}

C13_Witness ==
    /\ pc = "done"
    /\ Len(tf_vars) = 2
    /\ tf_vars[1].name = "bert/encoder/transformer/group_0/inner_group_0/ffn_1/intermediate/output/dense/kernel/adam_v"
    /\ tf_vars[2].name = "bert/pooler/dense/kernel"
    /\ parameters[<<"albert", "pooler", "weight">>].data = "bert/pooler/dense/kernel"
    /\ Assigned = {"bert/pooler/dense/kernel"}

\* the last path component of a checkpoint variable's name
LastComponent(original_name) ==
    Split(original_name, "/")[Len(Split(original_name, "/"))]

\* the shape of a checkpoint array once a 'kernel' is transposed
ShapeToLoad(v) ==
    IF LastComponent(v.name) = "kernel" THEN Transposed(v.shape) ELSE v.shape

\* C14: a checkpoint array is assigned to a parameter only when the parameter's
\* shape equals the array's shape (a 'kernel' array transposed first); on a
\* mismatch an AssertionError carrying both shapes propagates, the mismatched
\* parameter keeps its previous value, and the parameters assigned earlier stay
\* assigned.
C14_ShapeChecked ==
    pc \in {"load", "done", "raised"} /\ model_class = "AlbertForMaskedLM" =>
        /\ LET constructed == InitialParameters(config)
           IN  \A p \in DOMAIN parameters :
                  /\ parameters[p].shape = constructed[p].shape
                  /\ parameters[p].data # "init_weights" =>
                        \E v \in Visited : /\ v.name = parameters[p].data
                                           /\ ShapeToLoad(v) = parameters[p].shape
        /\ \A v \in Visited :
              ~Skippable(v.name) =>
                  \E p \in DOMAIN parameters : /\ parameters[p].data = v.name
                                               /\ parameters[p].shape = ShapeToLoad(v)
        /\ pc = "raised" /\ error = "AssertionError" =>
              /\ Len(error_args) = 2
              /\ error_args[1] # error_args[2]
              /\ error_args[2] = ShapeToLoad(tf_vars[tf_index + 1])
              /\ \E p \in DOMAIN parameters : parameters[p].shape = error_args[1]
              /\ tf_vars[tf_index + 1].name \notin Assigned

C14_Witness ==
    /\ pc = "raised"
    /\ error = "AssertionError"
    /\ tf_index = 1
    /\ tf_vars[1] = [name |-> "bert/encoder/embedding_hidden_mapping_in/kernel", shape |-> <<2, 3>>]
    /\ tf_vars[2] = [name |-> "bert/encoder/transformer/group_0/inner_group_0/ffn_1/intermediate/dense/kernel",
                     shape |-> <<4, 5>>]
    /\ error_args = << <<4, 3>>, <<5, 4>> >>
    /\ parameters[<<"albert", "encoder", "embedding_hidden_mapping_in", "weight">>]
          = [shape |-> <<3, 2>>, data |-> "bert/encoder/embedding_hidden_mapping_in/kernel"]
    /\ parameters[<<"albert", "encoder", "albert_layer_groups", "0", "albert_layers", "0",
                    "ffn", "weight">>].data = "init_weights"

\* the checkpoint variable the loop visited last
LastVisited == IF pc = "raised" THEN tf_vars[tf_index + 1].name ELSE tf_vars[tf_index].name

\* C15: the substitutions are applied in an order by which
\* 'group_<g>/inner_group_<k>' becomes 'albert_layer_groups/<g>/albert_layers/<k>'
\* with no 'inner_' left over, 'LayerNorm_1' becomes 'full_layer_layer_norm',
\* a plain 'LayerNorm' inside a layer becomes 'attention/LayerNorm', and a
\* 'LayerNorm' under 'embeddings' or 'predictions' keeps no 'attention'
\* component.
C15_NameRemapping ==
    pc \in {"load", "done", "raised"} /\ model_class = "AlbertForMaskedLM"
                                      /\ (tf_index > 0 \/ pc = "raised") =>
        /\ ~Contains(name, "inner_")
        /\ \A g, k \in {"0", "1"} :
              Contains(LastVisited, "group_" \o g \o "/inner_group_" \o k \o "/") =>
                  /\ Contains(name, "/albert_layer_groups/" \o g \o "/albert_layers/" \o k \o "/")
                  /\ ~Contains(name, "group_")
        /\ Contains(LastVisited, "/LayerNorm_1/") =>
              /\ Contains(name, "/full_layer_layer_norm/")
              /\ ~Contains(name, "LayerNorm")
        /\ Contains(LastVisited, "inner_group_") /\ Contains(LastVisited, "/LayerNorm/") =>
              Contains(name, "/attention/LayerNorm/")
        /\ /\ Contains(LastVisited, "LayerNorm")
           /\ Contains(LastVisited, "embeddings/") \/ Contains(LastVisited, "predictions/")
           => /\ Contains(name, "LayerNorm")
              /\ \A n \in 1..Len(Split(name, "/")) : Split(name, "/")[n] # "attention"

C15_Witness ==
    /\ pc = "done"
    /\ Len(tf_vars) = 2
    /\ tf_vars[1].name = "bert/encoder/transformer/group_1/inner_group_0/LayerNorm_1/gamma"
    /\ tf_vars[2].name = "cls/predictions/transform/LayerNorm/beta"
    /\ name = "predictions/LayerNorm/beta"
    /\ parameters[<<"albert", "encoder", "albert_layer_groups", "1", "albert_layers", "0",
                    "full_layer_layer_norm", "weight">>].data = tf_vars[1].name
    /\ parameters[<<"predictions", "LayerNorm", "bias">>].data = tf_vars[2].name

\* C16: AlbertTransformer.forward is a straight sequential composition that
\* always terminates: it never raises, it makes exactly num_hidden_layers
\* iterations, iteration i works on the hidden state iteration i - 1 left, and
\* each iteration applies all inner_group_num layers of its group in order, so
\* that a finished forward has made num_hidden_layers * inner_group_num layer
\* applications.
C16_SequentialComposition ==
    model_class = "AlbertModel" /\ pc \in {"encoder", "done", "raised"} =>
        /\ error # "IndexError"
        /\ pc = "done" => i = config.num_hidden_layers
        /\ pc \in {"encoder", "done"} =>
              LET h == Val(hidden_states)
                  K == config.inner_group_num
              IN  /\ i <= config.num_hidden_layers
                  /\ Len(h) = i * K
                  /\ \A p \in 1..Len(h) :
                        /\ h[p].iteration = (p - 1) \div K
                        /\ h[p].layer = (p - 1) % K
                        /\ h[p].group = GroupIdx(config, h[p].iteration)

====
